---- MODULE Spec2Model ----
(***************************************************************************)
(* WLED Music Sync: the timed scene scheduler.                             *)
(*                                                                         *)
(* The model follows main_async (src/main.py), SceneScheduler              *)
(* (src/wled_music_sync/scheduler.py), WLEDController                      *)
(* (src/wled_music_sync/controller.py) and the parts of MusicPlayer        *)
(* (src/wled_music_sync/gui.py) the main loop reads.                       *)
(*                                                                         *)
(* Time is counted in abstract units; only the order of time values is     *)
(* used by the code (<=, <, >).  An Optional[float] is a sequence of       *)
(* length at most one: None is << >>, a reading t is << t >>.              *)
(***************************************************************************)
EXTENDS Integers, Sequences, FiniteSets

(* ------------------------------ bounds --------------------------------- *)

\* largest time_s of an event; clock readings range over 0..MaxTime+1
MaxTime == 2

\* largest number of events of a timeline
MaxEvents == 2

(* --------------------------- program constants ------------------------- *)

\* WLEDController timeouts, in tenths of a second
WLED_HTTP_TIMEOUT == 5

WLED_CONNECT_TIMEOUT == 2

WLED_READ_TIMEOUT == 3

\* timeout of asyncio.wait in _dispatch_event, in tenths of a second
WAIT_TIMEOUT == 5

(* ------------------------------ Optional ------------------------------- *)

None == << >>

Some(t) == << t >>

Val(o) == o[1]

(* ------------------------------ registry ------------------------------- *)

\* a controller id that cannot be used as a dict key (a YAML list given as an
\* item of a group's controllers list)
Unhashable == "unhashable"

\* SceneScheduler.controllers: controller id -> list of WLEDController (by base_url).
\* "E" is configured with an empty urls list; "X" is not configured at all.
controllers ==
    [ c \in {"A", "B", "C", "E"} |->
        CASE c = "A" -> << "a1", "a2" >>
          [] c = "B" -> << "b1" >>
          [] c = "C" -> << "c1" >>
          [] c = "E" -> << >> ]

Endpoints == { "a1", "a2", "b1", "c1" }

\* dict.get(controller_id, [])
ControllersGet(cid) == IF cid \in DOMAIN controllers THEN controllers[cid] ELSE << >>

(* ------------------------------ timelines ------------------------------ *)

\* ControllerScene(controller_id, scene); the scene is one of the shapes apply_scene
\* tells apart: "preset", "preset_name", "state" (any other dict) and "bad" (not a
\* container: the YAML value was null or a number)
CScene(cid, kind) == [ controller_id |-> cid, scene |-> kind ]

\* the controller_scenes lists events are drawn from
SceneListSeq ==
    << << CScene("B", "preset") >>,
       << CScene("X", "state"), CScene("B", "preset_name") >>,
       << CScene("B", "bad"), CScene("E", "preset") >>,
       << CScene("B", "state"), CScene(Unhashable, "preset"), CScene("B", "preset") >>,
       << CScene("X", "preset"), CScene("E", "state") >> >>

TimedEvent(t, scenes) == [ time_s |-> t, controller_scenes |-> scenes ]

\* a loader that returns the events in the order of the file
FileOrder(ts) == TRUE

\* the invariant sorted() of load_timings_from_yaml establishes
IsSorted(ts) == \A i \in 1..(Len(ts) - 1) : ts[i] <= ts[i + 1]

\* the sorted lists of at most MaxEvents event times
TimeLists ==
    { ts \in UNION { [1..n -> 0..MaxTime] : n \in 0..MaxEvents } : IsSorted(ts) }

\* the timeline with the event times ts whose events carry consecutive members of
\* SceneListSeq, the first event carrying member number shape
Timeline(ts, shape) ==
    [ i \in 1..Len(ts) |->
        TimedEvent(ts[i], SceneListSeq[((shape + i - 2) % Len(SceneListSeq)) + 1]) ]

\* the timelines of the timing map
Timelines ==
    { Timeline(ts, shape) : ts \in TimeLists, shape \in 1..Len(SceneListSeq) }

\* an event whose scenes resolve to four endpoints
FanScenes == << CScene("A", "preset"), CScene("B", "state"), CScene("C", "preset_name") >>

\* a timing map whose first event has a unit that raises and whose second event
\* names a controller id that cannot be a dictionary key
FaultTimelines ==
    { << TimedEvent(0, << CScene("B", "bad"), CScene("C", "preset_name") >>),
         TimedEvent(1, << CScene("A", "state"), CScene(Unhashable, "preset"),
                          CScene("B", "preset") >>) >> }

\* a timing map with a show whose first event has two scenes for one controller
\* (a group and a regular entry naming the same id) and whose second event
\* comes back to that controller
SharedShow ==
    << TimedEvent(0, << CScene("B", "state"), CScene("B", "preset_name") >>),
       TimedEvent(1, << CScene("B", "preset"), CScene("C", "state") >>) >>

\* the timelines of a timing map that also has a show fanning out to four endpoints
FanTimelines == { << TimedEvent(0, FanScenes) >> } \cup FaultTimelines

\* the timelines of a timing map that also has the show sharing a controller
SharedTimelines == { SharedShow } \cup FaultTimelines

(* ------------------------------- state --------------------------------- *)

VARIABLES
    pc,                   \* where main_async is
    in_song_select,       \* player._in_song_select
    song_finished,        \* player._song_finished
    start_time,           \* player._start_time is set (TRUE) or None (FALSE)
    file_path,            \* player._file_path is set: some music is loaded
    events,               \* main_async: events
    current_event_index,  \* main_async: current_event_index (0-based)
    last_time,            \* main_async: last_time
    current_time,         \* main_async: current_time of the running tick
    dry_run,              \* SceneScheduler.dry_run
    tasks,                \* _dispatch_event: tasks, one record per unit
    pending,              \* _dispatch_event: the pending tasks not yet cancelled
    report,               \* the log record of the _dispatch_event call that has just returned
    last_tasks,           \* history: the tasks of that call when it returned
    session,              \* WLEDController._internal_session is set, per endpoint
    sessions_created,     \* history: the ClientSessions constructed, per endpoint
    tick_log,             \* history: indices dispatched in the running tick
    dispatched,           \* history: indices dispatched in this playback
    redo,                 \* history: indices dispatched before a backward jump
                          \*   that passed over them, and not yet dispatched again
    again,                \* history: indices dispatched again after such a jump
    last_dispatched,      \* history: index dispatched last since the show began or
                          \*   the clock jumped backward, as << i >>, else None
    end_position,         \* history: the playback position at which the end of
                          \*   the music was signalled, as << p >>; None from the
                          \*   next choice of a show on
    jumped_to,            \* history: the reading of the last backward jump of
                          \*   this playback, as << t >>, else None
    call,                 \* a function of the program called on its own: its
                          \*   name and arguments, as << c >>, else None
    returned              \* what that call returned and did, as << o >>, else None

vars == << pc, in_song_select, song_finished, start_time, file_path, events,
           current_event_index, last_time, current_time, dry_run, tasks,
           pending, report, last_tasks, session, sessions_created, tick_log,
           dispatched, redo, again,
           last_dispatched, end_position, jumped_to, call,
           returned >>

(* ------------------------- _dispatch_event: tasks ---------------------- *)

\* a unit of work: the task created for one (scene, controller instance) pair.
\* st: "created" (scheduled, not yet run), "get" (awaiting GET /presets),
\*     "post" (awaiting POST /json), "done", "cancelled"
\* result: "none" while not done; "ok" (True); "http_error" (a status outside
\*     2xx), "net_error" (a connection error), "timed_out" (a timeout of the
\*     session), "not_found" (no preset of that name): all four False;
\*     "raised" (an exception left apply_scene)
\* gets, posts: the requests apply_scene has sent; answers: the responses it got
NewTask(cs, url) ==
    [ controller_id |-> cs.controller_id, base_url |-> url, scene |-> cs.scene,
      st |-> "created", result |-> "none", gets |-> 0, posts |-> 0, answers |-> 0 ]

\* the inner for loop: one task per instance of the scene's controller
UnitsFor(cs) ==
    [ k \in 1..Len(ControllersGet(cs.controller_id)) |->
        NewTask(cs, ControllersGet(cs.controller_id)[k]) ]

\* self.controllers.get(cscene.controller_id, []) raises TypeError on an
\* unhashable key
GetRaises(scenes) == \E i \in 1..Len(scenes) : scenes[i].controller_id = Unhashable

\* the tasks list built by the for loop over event.controller_scenes, up to the
\* scene whose lookup raises
RECURSIVE TasksOf(_)
TasksOf(scenes) ==
    IF scenes = << >> THEN << >>
    ELSE IF Head(scenes).controller_id = Unhashable THEN << >>
    ELSE UnitsFor(Head(scenes)) \o TasksOf(Tail(scenes))

\* Task.done(): finished with a result, an exception or a cancellation
TaskDone(t) == t.st \in {"done", "cancelled"}

DoneSet(ts) == { i \in 1..Len(ts) : TaskDone(ts[i]) }

PendingSet(ts) == { i \in 1..Len(ts) : ~TaskDone(ts[i]) }

\* what apply_scene returned
ApplyResult(t) == t.result = "ok"

NoReport == [ logged |-> FALSE, attempted |-> 0, success_count |-> 0,
              timeout_count |-> 0, total_time |-> 0 ]

(* ------------------------------- Init ---------------------------------- *)

\* the state of main_async, the player and the scheduler after construction
MainInit ==
    /\ pc = "loop"
    /\ in_song_select = TRUE
    /\ song_finished = FALSE
    /\ start_time = FALSE
    /\ file_path = FALSE
    /\ events = << >>
    /\ current_event_index = 0
    /\ last_time = None
    /\ current_time = None
    /\ tasks = << >>
    /\ pending = {}
    /\ report = NoReport
    /\ last_tasks = << >>
    /\ session = [ e \in Endpoints |-> FALSE ]
    /\ sessions_created = [ e \in Endpoints |-> 0 ]
    /\ tick_log = << >>
    /\ dispatched = {}
    /\ redo = {}
    /\ again = {}
    /\ last_dispatched = None
    /\ end_position = None
    /\ jumped_to = None

\* the program started, with or without --dry-run
Init ==
    /\ MainInit
    /\ dry_run \in BOOLEAN
    /\ call = None
    /\ returned = None

(* --------------------------- main loop: player ------------------------- *)

\* CountUpTo with "<" for "<=": the events at the reading itself are not counted
RECURSIVE CountUpToStrict(_, _, _)
CountUpToStrict(evs, idx, t) ==
    IF idx < Len(evs) /\ evs[idx + 1].time_s < t
    THEN CountUpToStrict(evs, idx + 1, t)
    ELSE idx

\* a scan that runs to the end of the timeline whatever the reading is
CountUpToEnd(evs, idx, t) == Len(evs)

\* a backward branch that leaves the cursor where it is
CursorKept(evs, idx, t) == current_event_index

\* a backward branch that takes the cursor back to the first event
CountFromStart(evs, idx, t) == 0

\* the scan of the backward branch, from idx: it stops at the first event with
\* time_s > t, which for a sorted timeline is the number of events with time_s <= t
RECURSIVE CountUpTo(_, _, _)
CountUpTo(evs, idx, t) ==
    IF idx < Len(evs) /\ evs[idx + 1].time_s <= t
    THEN CountUpTo(evs, idx + 1, t)
    ELSE idx

\* a close() that calls close() of the session without looking at it
CloseUnguarded(sess) == [ session |-> FALSE, raised |-> ~sess ]

\* WLEDController.close(): "if self._internal_session:" close it and set it to
\* None; the session left, and whether the call raised
ControllerClose(sess) ==
    IF sess THEN [ session |-> FALSE, raised |-> FALSE ]
    ELSE [ session |-> sess, raised |-> FALSE ]

\* a scheduler.close() that closes the first endpoint of each controller only
SchedulerCloseFirst(sessions) ==
    [ e \in Endpoints |->
        IF sessions[e] /\ \E c \in DOMAIN controllers :
                              controllers[c] # << >> /\ controllers[c][1] = e
        THEN ControllerClose(sessions[e]).session
        ELSE sessions[e] ]

\* SceneScheduler.close(): controller.close() for every controller of every list
\* that has a session
SchedulerClose(sessions) ==
    [ e \in Endpoints |->
        IF sessions[e] /\ \E c \in DOMAIN controllers :
                              \E k \in 1..Len(controllers[c]) : controllers[c][k] = e
        THEN ControllerClose(sessions[e]).session
        ELSE sessions[e] ]

\* the finally block: player.stop(), scheduler.close()
Shutdown ==
    /\ pc' = "exited"
    /\ start_time' = FALSE
    /\ session' = SchedulerClose(session)
    /\ UNCHANGED sessions_created

\* a selection that starts the chosen show where the previous one stopped
SelectSongKeeps(tl, isfile) ==
    /\ pc = "loop"
    /\ in_song_select
    /\ in_song_select' = FALSE
    /\ IF isfile
       THEN /\ song_finished' = FALSE
            /\ events' = tl
            /\ start_time' = TRUE
            /\ file_path' = TRUE
            /\ tick_log' = << >>
            /\ dispatched' = {}
            /\ redo' = {}
            /\ again' = {}
            /\ last_dispatched' = None
            /\ UNCHANGED << current_event_index, last_time >>
       ELSE UNCHANGED << song_finished, events, start_time, file_path,
                         current_event_index, last_time, tick_log, dispatched,
                         redo, again, last_dispatched >>
    /\ UNCHANGED << pc, current_time, dry_run, tasks, pending, report, last_tasks,
                    session, sessions_created >>
    /\ end_position' = None
    /\ jumped_to' = None
    /\ UNCHANGED << call, returned >>

\* song selection mode, handle_events returns a song name: the song's timeline is
\* any timeline of the timing map; isfile tells whether the song file exists
SelectSong(tl, isfile) ==
    /\ pc = "loop"
    /\ in_song_select
    /\ in_song_select' = FALSE
    /\ IF isfile
       THEN /\ song_finished' = FALSE
            /\ events' = tl
            /\ start_time' = TRUE
            /\ file_path' = TRUE
            /\ current_event_index' = 0
            /\ last_time' = None
            /\ tick_log' = << >>
            /\ dispatched' = {}
            /\ redo' = {}
            /\ again' = {}
            /\ last_dispatched' = None
       ELSE UNCHANGED << song_finished, events, start_time, file_path,
                         current_event_index, last_time, tick_log, dispatched,
                         redo, again, last_dispatched >>
    /\ UNCHANGED << pc, current_time, dry_run, tasks, pending, report, last_tasks,
                    session, sessions_created >>
    /\ end_position' = None
    /\ jumped_to' = None
    /\ UNCHANGED << call, returned >>

\* handle_events returns False (Q or window closed) in either mode
Quit ==
    /\ pc = "loop"
    /\ Shutdown
    /\ UNCHANGED << in_song_select, song_finished, file_path, events,
                    current_event_index, last_time, current_time, dry_run, tasks,
                    pending, report, last_tasks, tick_log, dispatched, redo, again,
                    last_dispatched >>
    /\ UNCHANGED << end_position, jumped_to, call, returned >>

\* the end-of-song event arrives, in either mode (keys act on the music in song
\* selection mode too): handle_events returns None, which the song selection
\* branch ignores.  The playback is over, and so are the histories kept of it.
\* p is the playback position at that moment, not before the last reading taken.
EndOfSong(p) ==
    /\ pc = "loop"
    /\ start_time
    /\ last_time # None => Val(last_time) <= p
    /\ song_finished' = TRUE
    /\ start_time' = FALSE
    /\ in_song_select' = TRUE
    /\ tick_log' = << >>
    /\ dispatched' = {}
    /\ redo' = {}
    /\ again' = {}
    /\ last_dispatched' = None
    /\ UNCHANGED << pc, file_path, events, current_event_index, last_time,
                    current_time, dry_run, tasks, pending, report, last_tasks,
                    session, sessions_created >>
    /\ end_position' = Some(p)
    /\ jumped_to' = None
    /\ UNCHANGED << call, returned >>

\* a seek or restart key, in either mode, while the clock is stopped and some
\* music is loaded: the music is played again and _start_time is set
KeyStartsClock ==
    /\ pc = "loop"
    /\ ~start_time
    /\ file_path
    /\ start_time' = TRUE
    /\ UNCHANGED << pc, in_song_select, song_finished, file_path, events,
                    current_event_index, last_time, current_time, dry_run, tasks,
                    pending, report, last_tasks, session, sessions_created, tick_log,
                    dispatched, redo, again, last_dispatched >>
    /\ UNCHANGED << end_position, jumped_to, call, returned >>

\* a key whose handler raises while the clock is stopped, in either mode (SPACE
\* subtracts _start_time = None): the exception leaves the main loop
KeyRaises ==
    /\ pc = "loop"
    /\ ~start_time
    /\ Shutdown
    /\ UNCHANGED << in_song_select, song_finished, file_path, events,
                    current_event_index, last_time, current_time, dry_run, tasks,
                    pending, report, last_tasks, tick_log, dispatched, redo, again,
                    last_dispatched >>
    /\ UNCHANGED << end_position, jumped_to, call, returned >>

\* player.playback_elapsed(): None when _start_time is not set
PlaybackElapsed(r) == IF start_time THEN r # None ELSE r = None

(* --------------------------- main loop: a tick ------------------------- *)

\* the events a backward jump from t_old to t_new passes over
PassedOver(evs, t_new, t_old) ==
    { i \in 0..(Len(evs) - 1) : t_new < evs[i + 1].time_s /\ evs[i + 1].time_s <= t_old }

\* a tick that also takes a reading equal to last_time for progress
ReadClockOrEqual(r) ==
    /\ pc = "loop"
    /\ ~in_song_select
    /\ PlaybackElapsed(r)
    /\ current_time' = r
    /\ tick_log' = << >>
    /\ IF r = None
       THEN UNCHANGED << pc, current_event_index, last_time, redo, again,
                         last_dispatched >>
       ELSE IF last_time = None \/ Val(r) >= Val(last_time)
       THEN /\ pc' = "while"
            /\ UNCHANGED << current_event_index, last_time, redo, again,
                            last_dispatched >>
       ELSE IF Val(r) < Val(last_time)
       THEN /\ current_event_index' = CountUpTo(events, 0, Val(r))
            /\ last_time' = r
            /\ redo' = redo \cup
                        (PassedOver(events, Val(r), Val(last_time)) \cap dispatched)
            /\ again' = again
            /\ last_dispatched' = None
            /\ pc' = "loop"
       ELSE /\ last_time' = r
            /\ UNCHANGED << pc, current_event_index, redo, again, last_dispatched >>
    /\ UNCHANGED << in_song_select, song_finished, start_time, file_path, events,
                    dry_run, tasks, pending, report, last_tasks, session,
                    sessions_created, dispatched >>
    /\ jumped_to' = IF r # None /\ last_time # None /\ Val(r) < Val(last_time)
                    THEN r
                    ELSE jumped_to
    /\ UNCHANGED << end_position, call, returned >>

\* playback mode, handle_events returns True and the clock is read: the branch
\* taken on the reading r, up to the first dispatch
ReadClock(r) ==
    /\ pc = "loop"
    /\ ~in_song_select
    /\ PlaybackElapsed(r)
    /\ current_time' = r
    /\ tick_log' = << >>
    /\ IF r = None
       THEN UNCHANGED << pc, current_event_index, last_time, redo, again,
                         last_dispatched >>
       ELSE IF last_time = None \/ Val(r) > Val(last_time)
       THEN /\ pc' = "while"
            /\ UNCHANGED << current_event_index, last_time, redo, again,
                            last_dispatched >>
       ELSE IF Val(r) < Val(last_time)
       THEN /\ current_event_index' = CountUpTo(events, 0, Val(r))
            /\ last_time' = r
            /\ redo' = redo \cup
                        (PassedOver(events, Val(r), Val(last_time)) \cap dispatched)
            /\ again' = again
            /\ last_dispatched' = None
            /\ pc' = "loop"
       ELSE /\ last_time' = r
            /\ UNCHANGED << pc, current_event_index, redo, again, last_dispatched >>
    /\ UNCHANGED << in_song_select, song_finished, start_time, file_path, events,
                    dry_run, tasks, pending, report, last_tasks, session,
                    sessions_created, dispatched >>
    /\ jumped_to' = IF r # None /\ last_time # None /\ Val(r) < Val(last_time)
                    THEN r
                    ELSE jumped_to
    /\ UNCHANGED << end_position, call, returned >>

\* Due with "<" for "<=": an event whose time_s equals the reading is not due
DueStrict ==
    /\ current_event_index < Len(events)
    /\ events[current_event_index + 1].time_s < Val(current_time)

\* a while loop that gives up the tick after a dispatch in which a unit timed out
DueWhileAnswered ==
    /\ current_event_index < Len(events)
    /\ events[current_event_index + 1].time_s <= Val(current_time)
    /\ report.timeout_count = 0

\* the condition of the dispatch while loop
Due == /\ current_event_index < Len(events)
       /\ events[current_event_index + 1].time_s <= Val(current_time)

\* the while loop ends: last_time = current_time
EndTick ==
    /\ pc = "while"
    /\ ~Due
    /\ last_time' = current_time
    /\ pc' = "loop"
    /\ report' = NoReport
    /\ last_tasks' = << >>
    /\ UNCHANGED << in_song_select, song_finished, start_time, file_path, events,
                    current_event_index, current_time, dry_run, tasks, pending,
                    session, sessions_created, tick_log, dispatched, redo, again,
                    last_dispatched >>
    /\ UNCHANGED << end_position, jumped_to, call, returned >>

(* ------------------------- _dispatch_event: steps ---------------------- *)

\* a return that ends the loop when a unit of the event raised
ReturnedOrHalt ==
    IF \E i \in 1..Len(tasks) : tasks[i].result = "raised"
    THEN pc' = "exited" /\ UNCHANGED current_event_index
    ELSE pc' = "while" /\ current_event_index' = current_event_index + 1

\* a return that keeps the cursor on the event when a unit of it did not succeed
ReturnedIfOk ==
    /\ pc' = "while"
    /\ current_event_index' =
          IF \A i \in 1..Len(tasks) : tasks[i].result = "ok"
          THEN current_event_index + 1
          ELSE current_event_index

\* main_async after "await scheduler._dispatch_event(...)" returned
Returned ==
    /\ current_event_index' = current_event_index + 1
    /\ pc' = "while"

\* the tasks the event loop still holds once _dispatch_event has returned and its
\* local list is gone: those that are not finished
Alive(ts) == SelectSeq(ts, LAMBDA t : ~TaskDone(t))

\* the sets of tasks asyncio.wait returns
WaitDone(ts) == DoneSet(ts)

WaitPending(ts) == PendingSet(ts)

\* the counts of the log record
SuccessCount(done) == Cardinality(done)

TimeoutCount(pend) == Cardinality(pend)

\* the deadline passed to asyncio.wait
WaitDeadline == WAIT_TIMEOUT

\* the while loop dispatches the event at the cursor: _dispatch_event creates the
\* tasks and runs up to its first await
DispatchStart ==
    /\ pc = "while"
    /\ Due
    /\ LET ev == events[current_event_index + 1]
           ts == TasksOf(ev.controller_scenes)
       IN /\ tasks' = ts
          /\ tick_log' = Append(tick_log, current_event_index)
          /\ dispatched' = dispatched \cup { current_event_index }
          /\ redo' = redo \ { current_event_index }
          /\ again' = again \cup ({ current_event_index } \cap redo)
          /\ last_dispatched' = Some(current_event_index)
          /\ report' = NoReport
          /\ last_tasks' = << >>
          /\ IF ts = << >>
             THEN /\ Returned
                  /\ pending' = {}
             ELSE IF GetRaises(ev.controller_scenes)
             THEN /\ pc' = "cleanup"
                  /\ pending' = 1..Len(ts)
                  /\ UNCHANGED current_event_index
             ELSE /\ pc' = "wait"
                  /\ pending' = {}
                  /\ UNCHANGED current_event_index
    /\ UNCHANGED << in_song_select, song_finished, start_time, file_path, events,
                    last_time, current_time, dry_run, session, sessions_created >>
    /\ UNCHANGED << end_position, jumped_to, call, returned >>

\* the places where main_async is suspended and the event loop runs the tasks
AwaitPoints == { "wait", "cancel", "cleanup", "loop" }

UnitFrame ==
    UNCHANGED << pc, in_song_select, song_finished, start_time, file_path, events,
                 current_event_index, last_time, current_time, dry_run, pending,
                 report, last_tasks, tick_log, dispatched, redo, again,
                    last_dispatched, end_position, jumped_to, call,
                 returned >>

\* a _get_session that makes a session for every call
GetSessionPerCall(e) ==
    /\ session' = [ session EXCEPT ![e] = TRUE ]
    /\ sessions_created' = [ sessions_created EXCEPT ![e] = @ + 1 ]

\* _get_session: a ClientSession is constructed if _internal_session is None;
\* the coroutine has no await, so test and assignment are one step
GetSession(e) ==
    /\ session' = [ session EXCEPT ![e] = TRUE ]
    /\ sessions_created' =
           [ sessions_created EXCEPT ![e] = IF session[e] THEN @ ELSE @ + 1 ]

\* a first run that does not look at dry_run
UnitStartLive(i) ==
    /\ pc \in AwaitPoints
    /\ i \in 1..Len(tasks)
    /\ tasks[i].st = "created"
    /\ IF tasks[i].scene = "bad"
       THEN /\ tasks' = [ tasks EXCEPT ![i].st = "done", ![i].result = "raised" ]
            /\ UNCHANGED << session, sessions_created >>
       ELSE /\ GetSession(tasks[i].base_url)
            /\ tasks' = IF tasks[i].scene = "preset_name"
                        THEN [ tasks EXCEPT ![i].st = "get", ![i].gets = @ + 1 ]
                        ELSE [ tasks EXCEPT ![i].st = "post", ![i].posts = @ + 1 ]
    /\ UnitFrame

\* the first run of a task: apply_scene up to its first network await
UnitStart(i) ==
    /\ pc \in AwaitPoints
    /\ i \in 1..Len(tasks)
    /\ tasks[i].st = "created"
    /\ IF tasks[i].scene = "bad"
       THEN /\ tasks' = [ tasks EXCEPT ![i].st = "done", ![i].result = "raised" ]
            /\ UNCHANGED << session, sessions_created >>
       ELSE IF dry_run
       THEN /\ tasks' = [ tasks EXCEPT ![i].st = "done", ![i].result = "ok" ]
            /\ UNCHANGED << session, sessions_created >>
       ELSE /\ GetSession(tasks[i].base_url)
            /\ tasks' = IF tasks[i].scene = "preset_name"
                        THEN [ tasks EXCEPT ![i].st = "get", ![i].gets = @ + 1 ]
                        ELSE [ tasks EXCEPT ![i].st = "post", ![i].posts = @ + 1 ]
    /\ UnitFrame

\* the least of the three limits of the session's ClientTimeout: a request to an
\* endpoint that does not answer at all ends with a timeout exception this long
\* after it began (connect), or after the connection was made (sock_read)
SessionLimit ==
    IF WLED_CONNECT_TIMEOUT <= WLED_READ_TIMEOUT /\ WLED_CONNECT_TIMEOUT <= WLED_HTTP_TIMEOUT
    THEN WLED_CONNECT_TIMEOUT
    ELSE IF WLED_READ_TIMEOUT <= WLED_HTTP_TIMEOUT THEN WLED_READ_TIMEOUT
    ELSE WLED_HTTP_TIMEOUT

\* a request of a task can end with the session's timeout exception: while
\* asyncio.wait is still waiting only if a limit of the session is shorter than
\* the deadline of the wait, and at any time once that deadline has passed
MayTimeOut == pc = "wait" => SessionLimit < WaitDeadline

Outcomes == { "2xx", "non2xx", "error", "timeout" }

GetOutcomes == { "match", "no_match", "error", "timeout" }

\* _apply_preset_by_name: the outcome of GET /presets
UnitGet(i, outcome) ==
    /\ pc \in AwaitPoints
    /\ i \in 1..Len(tasks)
    /\ tasks[i].st = "get"
    /\ outcome = "timeout" => MayTimeOut
    /\ tasks' = CASE outcome = "match" ->
                        [ tasks EXCEPT ![i].st = "post", ![i].posts = @ + 1,
                                       ![i].answers = @ + 1 ]
                  [] outcome = "no_match" ->
                        [ tasks EXCEPT ![i].st = "done", ![i].result = "not_found",
                                       ![i].answers = @ + 1 ]
                  [] outcome = "error" ->
                        [ tasks EXCEPT ![i].st = "done", ![i].result = "net_error" ]
                  [] outcome = "timeout" ->
                        [ tasks EXCEPT ![i].st = "done", ![i].result = "timed_out" ]
    /\ UNCHANGED << session, sessions_created >>
    /\ UnitFrame

\* a POST that is sent a second time after a non-2xx status or an exception
UnitPostRetries(i, outcome) ==
    /\ pc \in AwaitPoints
    /\ i \in 1..Len(tasks)
    /\ tasks[i].st = "post"
    /\ outcome = "timeout" => MayTimeOut
    /\ tasks' = IF outcome # "2xx" /\ tasks[i].posts < 2
                THEN [ tasks EXCEPT ![i].posts = @ + 1 ]
                ELSE [ tasks EXCEPT ![i].st = "done",
                         ![i].result = CASE outcome = "2xx" -> "ok"
                                         [] outcome = "non2xx" -> "http_error"
                                         [] outcome = "error" -> "net_error"
                                         [] outcome = "timeout" -> "timed_out" ]
    /\ UNCHANGED << session, sessions_created >>
    /\ UnitFrame

\* the outcome of POST /json: a 2xx status, another status, or an aiohttp
\* exception (connection error or one of the session's timeouts)
UnitPost(i, outcome) ==
    /\ pc \in AwaitPoints
    /\ i \in 1..Len(tasks)
    /\ tasks[i].st = "post"
    /\ outcome = "timeout" => MayTimeOut
    /\ tasks' = [ tasks EXCEPT ![i].st = "done",
                    ![i].answers = IF outcome \in { "2xx", "non2xx" } THEN @ + 1 ELSE @,
                    ![i].result = CASE outcome = "2xx" -> "ok"
                                    [] outcome = "non2xx" -> "http_error"
                                    [] outcome = "error" -> "net_error"
                                    [] outcome = "timeout" -> "timed_out" ]
    /\ UNCHANGED << session, sessions_created >>
    /\ UnitFrame

DispatchFrame ==
    UNCHANGED << in_song_select, song_finished, start_time, file_path, events,
                 last_time, current_time, dry_run, session, sessions_created,
                 tick_log, dispatched,
                 redo, again, last_dispatched, end_position, jumped_to, call,
                 returned >>

\* asyncio.wait without a timeout: it returns when every task is done
WaitForAll(ts, d) ==
    /\ d \in 0..WaitDeadline
    /\ PendingSet(ts) = {}
    /\ (\E i \in 1..Len(ts) : ts[i].result = "timed_out") => d >= SessionLimit

\* when asyncio.wait(..., timeout=0.5) returns, d after it was called: as soon as
\* every task is done, and at the deadline otherwise; a request that ended with
\* the session's timeout took at least the least limit of the session
WaitMayReturn(ts, d) ==
    /\ d \in 0..WaitDeadline
    /\ WaitPending(ts) # {} => d = WaitDeadline
    /\ (\E i \in 1..Len(ts) : ts[i].result = "timed_out") => d >= SessionLimit

\* asyncio.wait returns: every task is done, or the deadline has passed with
\* tasks pending (every task has had its first run by then)
WaitReturns(d) ==
    /\ pc = "wait"
    /\ \A i \in 1..Len(tasks) : tasks[i].st # "created"
    /\ WaitMayReturn(tasks, d)
    /\ report' = [ logged |-> WaitPending(tasks) = {},
                   attempted |-> Len(tasks),
                   success_count |-> SuccessCount(WaitDone(tasks)),
                   timeout_count |-> TimeoutCount(WaitPending(tasks)),
                   total_time |-> d ]
    /\ pending' = WaitPending(tasks)
    /\ IF WaitPending(tasks) = {}
       THEN /\ Returned
            /\ last_tasks' = tasks
            /\ tasks' = Alive(tasks)
       ELSE /\ pc' = "cancel"
            /\ UNCHANGED << current_event_index, tasks, last_tasks >>
    /\ DispatchFrame

\* a cancel loop that leaves the pending tasks running
LeftRunning(ts, i) == ts

\* task.cancel() followed by "await task"
Cancelled(ts, i) ==
    IF TaskDone(ts[i]) THEN ts ELSE [ ts EXCEPT ![i].st = "cancelled" ]

\* one turn of the loop over the pending tasks
CancelStep(i) ==
    /\ pc = "cancel"
    /\ i \in pending
    /\ pending' = pending \ {i}
    /\ IF pending' = {}
       THEN /\ report' = [ report EXCEPT !.logged = TRUE ]
            /\ Returned
            /\ last_tasks' = Cancelled(tasks, i)
            /\ tasks' = Alive(Cancelled(tasks, i))
       ELSE /\ tasks' = Cancelled(tasks, i)
            /\ UNCHANGED << report, pc, current_event_index, last_tasks >>
    /\ DispatchFrame

\* one turn of the loop of the outer except handler, in list order
CleanupStep ==
    /\ pc = "cleanup"
    /\ pending # {}
    /\ LET i == CHOOSE j \in pending : \A k \in pending : j <= k
       IN /\ pending' = pending \ {i}
          /\ IF pending' = {}
             THEN /\ Returned
                  /\ last_tasks' = Cancelled(tasks, i)
                  /\ tasks' = Alive(Cancelled(tasks, i))
             ELSE /\ tasks' = Cancelled(tasks, i)
                  /\ UNCHANGED << pc, current_event_index, last_tasks >>
    /\ UNCHANGED report
    /\ DispatchFrame

(* ------------------------------- Next ---------------------------------- *)

Readings == { None } \cup { Some(t) : t \in 0..(MaxTime + 1) }

\* the steps of the program whose timing map holds the timelines tls
NextWith(tls) ==
    \/ \E tl \in tls, isfile \in BOOLEAN : SelectSong(tl, isfile)
    \/ Quit
    \/ \E p \in 0..(MaxTime + 1) : EndOfSong(p)
    \/ KeyStartsClock
    \/ KeyRaises
    \/ \E r \in Readings : ReadClock(r)
    \/ EndTick
    \/ DispatchStart
    \/ \E i \in 1..Len(tasks) : UnitStart(i)
    \/ \E i \in 1..Len(tasks), o \in GetOutcomes : UnitGet(i, o)
    \/ \E i \in 1..Len(tasks), o \in Outcomes : UnitPost(i, o)
    \/ \E d \in 0..WaitDeadline : WaitReturns(d)
    \/ \E i \in pending : CancelStep(i)
    \/ CleanupStep

Next == NextWith(Timelines)

NextFan == NextWith(FanTimelines)

NextFault == NextWith(FaultTimelines)

\* every show of the timing map, events of at most two units
Spec == Init /\ [][Next]_vars

\* shows with an event of four units
SpecFan == Init /\ [][NextFan]_vars

\* the shows with faults
SpecFault == Init /\ [][NextFault]_vars

NextShared == NextWith(SharedTimelines)

\* the program on the show whose events share a controller
SpecShared == Init /\ [][NextShared]_vars

\* the shows with faults on an event loop that runs every task that is ready,
\* fires the timer of asyncio.wait and resumes main_async when it can go on;
\* nothing is assumed of the endpoints
FairSpec ==
    /\ Init /\ [][NextFault]_vars
    /\ WF_vars(\E i \in 1..Len(tasks) : UnitStart(i))
    /\ WF_vars(\E d \in 0..WaitDeadline : WaitReturns(d))
    /\ WF_vars(\E i \in pending : CancelStep(i))
    /\ WF_vars(CleanupStep)
    /\ WF_vars(DispatchStart)

(* --------------------- apply_scene, called on its own ------------------ *)

\* scene dictionaries: a recall by number (with or without other keys), a
\* recall by name, and state dictionaries sent as they are
ApplyScenes ==
    { [ preset |-> 5 ], [ preset |-> 3, bri |-> 9 ],
      [ preset |-> 5, preset_name |-> "Foo" ],
      [ preset_name |-> "Foo" ], [ preset_name |-> "Bar" ],
      [ on |-> TRUE ], [ on |-> FALSE, bri |-> 9 ] }

\* the keys of the JSON object GET /presets answers with
Pids == { "3", "7", "x" }

\* the "n" of its values
PresetNames == { "Foo", "foo", "Bar" }

\* the catalog of a device, in the order of the JSON object: at most two
\* entries, each key once
Catalogs ==
    LET Entry == [ pid : Pids, n : PresetNames ]
    IN { << >> } \cup { << e >> : e \in Entry }
         \cup { q \in Entry \X Entry : q[1].pid # q[2].pid }

\* the HTTP statuses a device answers a write with
Statuses == { 199, 200, 204, 299, 300, 404, 500 }

\* session.post ends with a response that has a status, or with an exception
PostOutcomes ==
    { [ status |-> st ] : st \in Statuses }
        \cup { [ exc |-> "error" ], [ exc |-> "timeout" ] }

\* a device: how its GET /presets ends (with its catalog when it answers) and
\* how its POST /json ends
Devices ==
    { [ get |-> "ok", catalog |-> c, post |-> po ] :
          c \in Catalogs, po \in PostOutcomes }
        \cup { [ get |-> g, catalog |-> << >>, post |-> po ] :
                   g \in { "error", "timeout" }, po \in PostOutcomes }

\* a status up to and including 300 counted as success
Is2xxOr300(status) == 200 <= status /\ status <= 300

\* "200 <= resp.status < 300"
Is2xx(status) == 200 <= status /\ status < 300

\* int(match): the keys that are numerals, and their values
IsNumeral(pid) == pid \in { "3", "7" }

IntOf(pid) == CASE pid = "3" -> 3 [] pid = "7" -> 7

\* a lookup that takes the last entry with the name
LastMatch(data, name) ==
    LET hits == { k \in 1..Len(data) : data[k].n = name }
    IN IF hits = {} THEN None
       ELSE Some(data[CHOOSE k \in hits : \A j \in hits : j <= k].pid)

\* "next((pid for pid, val in data.items() if val.get("n") == name), None)"
RECURSIVE FirstMatch(_, _)
FirstMatch(data, name) ==
    IF data = << >> THEN None
    ELSE IF Head(data).n = name THEN Some(Head(data).pid)
    ELSE FirstMatch(Tail(data), name)

\* the requests of a unit, as they go out
GetPresets == [ method |-> "GET", path |-> "/presets" ]

PostJson(payload) == [ method |-> "POST", path |-> "/json", body |-> payload ]

\* what a call leaves behind: the value returned ("raised" if an exception left
\* the call), the requests sent in order, and whether a session was asked for
Left(result, requests, sess) ==
    [ result |-> result, requests |-> requests, session |-> sess ]

\* "async with session.post(url, json=payload)" inside its try/except: True on
\* a 2xx status, False on another status and on any exception
Post(payload, before, dev) ==
    Left(IF "status" \in DOMAIN dev.post /\ Is2xx(dev.post.status)
         THEN "True" ELSE "False",
         Append(before, PostJson(payload)), TRUE)

\* _apply_preset_by_name
ApplyPresetByName(name, dry, dev) ==
    IF dry THEN Left("True", << >>, FALSE)
    ELSE IF dev.get # "ok" THEN Left("False", << GetPresets >>, TRUE)
    ELSE LET match == FirstMatch(dev.catalog, name)
         IN IF match = None THEN Left("False", << GetPresets >>, TRUE)
            ELSE IF ~IsNumeral(Val(match))
                 THEN Left("False", << GetPresets >>, TRUE)
            ELSE Post([ ps |-> IntOf(Val(match)), on |-> TRUE ],
                      << GetPresets >>, dev)

\* an apply_scene that switches the lights on with every state it sends
ApplySceneMerging(scene, dry, dev) ==
    IF "preset" \in DOMAIN scene
    THEN IF dry THEN Left("True", << >>, FALSE)
         ELSE Post([ ps |-> scene.preset, on |-> TRUE ], << >>, dev)
    ELSE IF "preset_name" \in DOMAIN scene
    THEN ApplyPresetByName(scene.preset_name, dry, dev)
    ELSE IF dry THEN Left("True", << >>, FALSE)
         ELSE Post([ k \in DOMAIN scene \cup { "on" } |->
                       IF k = "on" THEN TRUE ELSE scene[k] ], << >>, dev)

\* apply_scene
ApplyScene(scene, dry, dev) ==
    IF "preset" \in DOMAIN scene
    THEN IF dry THEN Left("True", << >>, FALSE)
         ELSE Post([ ps |-> scene.preset, on |-> TRUE ], << >>, dev)
    ELSE IF "preset_name" \in DOMAIN scene
    THEN ApplyPresetByName(scene.preset_name, dry, dev)
    ELSE IF dry THEN Left("True", << >>, FALSE)
         ELSE Post(scene, << >>, dev)

\* the calls of apply_scene looked at
ApplyCalls ==
    { [ fn |-> "apply_scene", scene |-> sc, dry_run |-> d, device |-> dev ] :
          sc \in ApplyScenes, d \in BOOLEAN, dev \in Devices }

InitApply ==
    /\ MainInit
    /\ call \in { Some(c) : c \in ApplyCalls }
    /\ dry_run = Val(call).dry_run
    /\ returned = None

\* the call is made and runs to its return
Apply ==
    /\ call # None
    /\ Val(call).fn = "apply_scene"
    /\ returned = None
    /\ returned' = Some(ApplyScene(Val(call).scene, Val(call).dry_run,
                                   Val(call).device))
    /\ UNCHANGED << pc, in_song_select, song_finished, start_time, file_path,
                    events, current_event_index, last_time, current_time,
                    dry_run, tasks, pending, report, last_tasks, session, sessions_created,
                    tick_log, dispatched, redo, again, last_dispatched,
                    end_position, jumped_to, call >>

NextApply == Apply

\* apply_scene on every scene, mode and device
SpecApply == InitApply /\ [][NextApply]_vars

(* ---------------- load_timings_from_yaml, called on its own -------------- *)

\* scene definitions of single controllers: a directive, and a directive under
\* a "scene" key
Regular1 == << "sword1", [ preset |-> 1 ] >>

Regular2 == << "trunk", [ scene |-> [ on |-> TRUE ] ] >>

\* a "group" entry whose controllers value is the YAML list ids, with the
\* directive fields of the test fixture
Group(ids) == << "group", [ controllers |-> [ list |-> ids ], preset |-> 1 ] >>

\* a "group" entry of three controllers with two directive fields
Group3 ==
    << "group", [ controllers |-> [ list |-> << "sword1", "sword2", "trunk" >> ],
                  on |-> TRUE, bri |-> 9 ] >>

\* "group" entries without a controllers key, and with a string for it
GroupMissing == << "group", [ preset |-> 1 ] >>

GroupString == << "group", [ controllers |-> [ str |-> "sword1" ], preset |-> 1 ] >>

\* the controllers mappings of the events, as the items of the mapping in the
\* order of the file
CtrlMaps ==
    { << >>,
      << Regular1 >>,
      << Group(<< "sword1", "sword2" >>) >>,
      << Regular1, Group3 >>,
      << Group(<< >>), Regular2 >>,
      << Group(<< "sword1", "sword1" >>), Regular1 >>,
      << GroupMissing, Regular1 >>,
      << Regular2, GroupString >>,
      << GroupMissing >>,
      << Regular1, Regular2 >> }

\* the events of a show as written in the file: with a time, or without one
RawEvents ==
    { [ time |-> t, controllers |-> m ] : t \in 0..MaxTime, m \in CtrlMaps }
        \cup { [ controllers |-> m ] : m \in CtrlMaps }

\* the documents: one show with at most MaxEvents events under "songs", or a
\* mapping without the "songs" key
Documents ==
    { [ shows |-> << >> ] }
        \cup { [ songs |-> evs ] :
                   evs \in UNION { [1..n -> RawEvents] : n \in 0..MaxEvents } }

\* "scene = scene_def.copy(); del scene["controllers"]"
Without(d, key) == [ k \in DOMAIN d \ { key } |-> d[k] ]

\* a group expansion that leaves the controllers key in the scenes
ParseKeepsKey(ctrl_key, scene_def) ==
    IF ctrl_key = "group"
    THEN IF "controllers" \notin DOMAIN scene_def THEN << >>
         ELSE IF "list" \notin DOMAIN scene_def.controllers THEN << >>
         ELSE [ i \in 1..Len(scene_def.controllers.list) |->
                  CScene(scene_def.controllers.list[i], scene_def) ]
    ELSE IF "scene" \in DOMAIN scene_def
         THEN << CScene(ctrl_key, scene_def.scene) >>
         ELSE << CScene(ctrl_key, scene_def) >>

\* a group expansion that takes a string for the one id of the group
ParseStringAsId(ctrl_key, scene_def) ==
    IF ctrl_key = "group"
    THEN IF "controllers" \notin DOMAIN scene_def THEN << >>
         ELSE IF "list" \notin DOMAIN scene_def.controllers
              THEN << CScene(scene_def.controllers.str,
                             Without(scene_def, "controllers")) >>
         ELSE [ i \in 1..Len(scene_def.controllers.list) |->
                  CScene(scene_def.controllers.list[i],
                         Without(scene_def, "controllers")) ]
    ELSE IF "scene" \in DOMAIN scene_def
         THEN << CScene(ctrl_key, scene_def.scene) >>
         ELSE << CScene(ctrl_key, scene_def) >>

\* _parse_controller_entry, for a scene_def that is a mapping
ParseControllerEntry(ctrl_key, scene_def) ==
    IF ctrl_key = "group"
    THEN IF "controllers" \notin DOMAIN scene_def THEN << >>
         ELSE IF "list" \notin DOMAIN scene_def.controllers THEN << >>
         ELSE [ i \in 1..Len(scene_def.controllers.list) |->
                  CScene(scene_def.controllers.list[i],
                         Without(scene_def, "controllers")) ]
    ELSE IF "scene" \in DOMAIN scene_def
         THEN << CScene(ctrl_key, scene_def.scene) >>
         ELSE << CScene(ctrl_key, scene_def) >>

\* the loop over ctrl_map.items(): controller_scenes.extend(scenes)
RECURSIVE ControllerScenes(_)
ControllerScenes(ctrl_map) ==
    IF ctrl_map = << >> THEN << >>
    ELSE ParseControllerEntry(Head(ctrl_map)[1], Head(ctrl_map)[2])
             \o ControllerScenes(Tail(ctrl_map))

\* ev.get("time", 0)
TimeGet(ev) == IF "time" \in DOMAIN ev THEN ev.time ELSE 0

\* the TimedEvent appended to timed_list for the event ev
Parsed(ev) == TimedEvent(TimeGet(ev), ControllerScenes(ev.controllers))

\* an order that also puts an event before the events of its own time
LtOrEqual(a, b) == a.time_s <= b.time_s

\* TimedEvent.__lt__
Lt(a, b) == a.time_s < b.time_s

\* sorted(): x goes in front of the first event it is less than, so behind the
\* events that are equal to it
RECURSIVE Insert(_, _)
Insert(done, x) ==
    IF done = << >> THEN << x >>
    ELSE IF Lt(x, Head(done)) THEN << x >> \o done
    ELSE << Head(done) >> \o Insert(Tail(done), x)

RECURSIVE Sorted(_)
Sorted(timed_list) ==
    IF timed_list = << >> THEN << >>
    ELSE Insert(Sorted(SubSeq(timed_list, 1, Len(timed_list) - 1)),
                timed_list[Len(timed_list)])

\* an item of a show's list that is a YAML string instead of a mapping
TextEvent == [ str |-> "intro" ]

\* ev.get exists: the item is a mapping
IsMapping(ev) == "str" \notin DOMAIN ev

\* load_timings_from_yaml on a document with one show: the timeline of the show,
\* or the ValueError for a document without "songs", or the AttributeError of
\* ev.get("time", 0) on an item that is not a mapping, which nothing catches
LoadTimingsFromYaml(data) ==
    IF "songs" \notin DOMAIN data
    THEN [ result |-> "raised", timeline |-> << >> ]
    ELSE IF \E i \in 1..Len(data.songs) : ~IsMapping(data.songs[i])
    THEN [ result |-> "raised", timeline |-> << >> ]
    ELSE [ result |-> "returned",
           timeline |-> Sorted([ i \in 1..Len(data.songs) |-> Parsed(data.songs[i]) ]) ]

InitLoad ==
    /\ MainInit
    /\ dry_run = FALSE
    /\ call \in { Some([ fn |-> "load_timings_from_yaml", data |-> d ]) :
                      d \in Documents }
    /\ returned = None

\* the call is made and runs to its return
Load ==
    /\ call # None
    /\ Val(call).fn = "load_timings_from_yaml"
    /\ returned = None
    /\ returned' = Some(LoadTimingsFromYaml(Val(call).data))
    /\ UNCHANGED << pc, in_song_select, song_finished, start_time, file_path,
                    events, current_event_index, last_time, current_time,
                    dry_run, tasks, pending, report, last_tasks, session, sessions_created,
                    tick_log, dispatched, redo, again, last_dispatched,
                    end_position, jumped_to, call >>

NextLoad == Load

\* documents with a show that has an item that is not a mapping, and the
\* document without "songs"
FaultyDocuments ==
    { [ shows |-> << >> ] }
        \cup { [ songs |-> evs ] :
                   evs \in { q \in UNION { [1..n -> RawEvents \cup { TextEvent }] :
                                               n \in 1..MaxEvents } :
                                 \E i \in 1..Len(q) : q[i] = TextEvent } }

InitLoadFaulty ==
    /\ MainInit
    /\ dry_run = FALSE
    /\ call \in { Some([ fn |-> "load_timings_from_yaml", data |-> d ]) :
                      d \in FaultyDocuments }
    /\ returned = None

\* load_timings_from_yaml on every faulty document
SpecLoadFaulty == InitLoadFaulty /\ [][NextLoad]_vars

\* load_timings_from_yaml on every document
SpecLoad == InitLoad /\ [][NextLoad]_vars

(* ---------------------- run_schedule, called on its own ------------------ *)

\* main_async, the player and the scheduler's sessions are left alone
MainUnchanged ==
    UNCHANGED << pc, in_song_select, song_finished, start_time, file_path,
                 events, current_event_index, last_time, current_time, dry_run,
                 tasks, pending, report, last_tasks, session, sessions_created,
                 tick_log, dispatched, redo, again, last_dispatched,
                 end_position, jumped_to >>

\* the lists given to run_schedule, in any order; id tells the events apart
GivenLists ==
    UNION { [ 1..n -> 0..MaxTime ] : n \in 0..MaxEvents }

GivenEvents(ts) == [ i \in 1..Len(ts) |-> [ id |-> i, time_s |-> ts[i] ] ]

\* the music_player argument: None (the default), or a player whose
\* playback_elapsed() is None or a position
GivenPlayers == { None, Some(None) } \cup { Some(Some(t)) : t \in 0..1 }

\* how late asyncio.sleep may return, and how long a dispatch may take
MaxLate == 1

ScheduleCalls ==
    [ fn : { "run_schedule" }, events : { GivenEvents(ts) : ts \in GivenLists },
      music_player : GivenPlayers ]

InitSchedule ==
    /\ MainInit
    /\ dry_run = FALSE
    /\ call \in { Some(c) : c \in ScheduleCalls }
    /\ returned = None

\* run_schedule up to its for loop: the empty list returns; events.sort();
\* music_player.playback_elapsed() raises AttributeError when music_player is
\* None; reference = perf_counter() - (elapsed or 0), with the clock at 0 when
\* run_schedule is called
RunScheduleStart ==
    /\ call # None
    /\ Val(call).fn = "run_schedule"
    /\ returned = None
    /\ LET c == Val(call)
           base == [ pc |-> "done", raised |-> FALSE, events |-> c.events,
                     reference |-> 0, now |-> 0, k |-> 1, log |-> << >> ]
       IN  returned' =
             IF c.events = << >> THEN Some(base)
             ELSE IF c.music_player = None
             THEN Some([ base EXCEPT !.raised = TRUE,
                                     !.events = Sorted(c.events) ])
             ELSE LET elapsed == Val(c.music_player)
                  IN  Some([ base EXCEPT
                               !.pc = "for",
                               !.events = Sorted(c.events),
                               !.reference =
                                   0 - (IF elapsed = None THEN 0 ELSE Val(elapsed)) ])
    /\ call' = call
    /\ MainUnchanged

\* one round of the for loop up to the call of _dispatch_event: asyncio.sleep
\* for sleep_for when it is positive, returning late seconds after that
RunScheduleNext(late) ==
    /\ returned # None
    /\ LET r == Val(returned)
       IN  /\ r.pc = "for"
           /\ LET event == r.events[r.k]
                  sleep_for == r.reference + event.time_s - r.now
                  now == IF sleep_for > 0 THEN r.now + sleep_for + late ELSE r.now
              IN  /\ sleep_for <= 0 => late = 0
                  /\ returned' =
                        Some([ r EXCEPT !.pc = "dispatch", !.now = now,
                                 !.log = Append(@, [ id |-> event.id, at |-> now ]) ])
    /\ call' = call
    /\ MainUnchanged

\* _dispatch_event returns after d seconds; the loop goes on or ends
RunScheduleDispatched(d) ==
    /\ returned # None
    /\ LET r == Val(returned)
       IN  /\ r.pc = "dispatch"
           /\ returned' =
                 Some([ r EXCEPT !.pc = IF r.k = Len(r.events) THEN "done" ELSE "for",
                                 !.k = @ + 1, !.now = @ + d ])
    /\ call' = call
    /\ MainUnchanged

NextSchedule ==
    \/ RunScheduleStart
    \/ \E late \in 0..MaxLate : RunScheduleNext(late)
    \/ \E d \in 0..MaxLate : RunScheduleDispatched(d)

\* run_schedule on every list and player
SpecSchedule == InitSchedule /\ [][NextSchedule]_vars

(* ------------------- TimecodeSync, called on its own --------------------- *)

\* the keys of TimecodeSync.events: the event times.  Times are counted in frames,
\* so that timecode_to_seconds, float(tc.frames) / float(tc.framerate), of a
\* timecode of n frames is n of these units.
EventTimes == SUBSET (0..MaxTime)

\* the timecodes update_timecode may be given, by their number of frames
Timecodes == 0..(MaxTime + 1)

\* TimecodeSync(events) followed or not by set_callback(callback); no timecode
\* received yet
InitTimecode ==
    /\ MainInit
    /\ dry_run = FALSE
    /\ call \in { Some([ fn |-> "update_timecode", events |-> ts, callback |-> cb ]) :
                      ts \in EventTimes, cb \in BOOLEAN }
    /\ returned = Some([ last_event_time |-> 0, received |-> << >>,
                         invoked |-> [ t \in Val(call).events |-> 0 ] ])

\* the test of update_timecode for an event
Triggered(last_event_time, event_time, current_seconds) ==
    last_event_time <= event_time /\ event_time <= current_seconds

\* update_timecode(tc_str) with a well-formed timecode of tc frames, later than
\* the timecodes received before: the callback is called for every event the
\* test selects, and _last_event_time becomes the time of the timecode
UpdateTimecode(tc) ==
    /\ call # None
    /\ Val(call).fn = "update_timecode"
    /\ LET r == Val(returned)
           c == Val(call)
       IN  /\ r.received # << >> => tc > r.received[Len(r.received)]
           /\ returned' =
                 Some([ last_event_time |-> tc,
                        received |-> Append(r.received, tc),
                        invoked |->
                          [ t \in c.events |->
                              IF c.callback /\ Triggered(r.last_event_time, t, tc)
                              THEN r.invoked[t] + 1
                              ELSE r.invoked[t] ] ])
    /\ call' = call
    /\ MainUnchanged

NextTimecode == \E tc \in Timecodes : UpdateTimecode(tc)

\* update_timecode on every set of events and every increasing sequence of
\* timecodes
SpecTimecode == InitTimecode /\ [][NextTimecode]_vars

(* ------------------------------- claims -------------------------------- *)

\* the event indices (0-based) of the running show
Indices == 0..(Len(events) - 1)

TimeOf(i) == events[i + 1].time_s

\* the range of a sequence
Range(q) == { q[k] : k \in 1..Len(q) }

\* the tick that is running has left its while loop: all its dispatches are made
TickDone == pc = "while" /\ ~Due

\* a step that calls _dispatch_event
DispatchStep == Len(tick_log') = Len(tick_log) + 1

\* main_async is inside a call of _dispatch_event
InDispatch == pc \in { "wait", "cancel", "cleanup" }

\* a step at which a call of _dispatch_event returns to the while loop
ReturnStep == pc' = "while" /\ (InDispatch \/ DispatchStep)

\* C1: a tick whose reading t1 is greater than last_time = t0 dispatches exactly
\* the events with time_s in (t0, t1], in ascending timeline order, each once in
\* that tick; the first tick of a show (last_time is None) dispatches exactly the
\* events with time_s <= t1.
C1_TickDispatchesWindow ==
    TickDone =>
        /\ Range(tick_log) =
              { i \in Indices : /\ last_time = None \/ TimeOf(i) > Val(last_time)
                                /\ TimeOf(i) <= Val(current_time) }
        /\ \A k \in 1..(Len(tick_log) - 1) : tick_log[k] < tick_log[k + 1]

\* the timeline [t=0, t=2] after the readings 0, 1 and 3: the tick from 1 to 3
\* has dispatched the event t=2 and only that one
C1_Witness ==
    /\ TickDone
    /\ Len(events) = 2 /\ TimeOf(0) = 0 /\ TimeOf(1) = 2
    /\ last_time = Some(1) /\ current_time = Some(3)
    /\ tick_log = << 1 >>
    /\ dispatched = { 0, 1 }

\* C2 (as claimed): during one playback no event is dispatched more than once,
\* whatever the clock readings are.
C2_AtMostOnce == [][ DispatchStep => current_event_index \notin dispatched ]_vars

\* the units of the call of _dispatch_event that returned last
LastUnits == 1..Len(last_tasks)

\* a call of _dispatch_event that went through asyncio.wait has just returned
WaitedReturn == pc = "while" /\ report.attempted > 0

\* C3: dispatches never overlap: when _dispatch_event has returned every unit it
\* created has completed or has been cancelled and awaited, so outside a call of
\* _dispatch_event no unit is running, and the units of a call in progress are
\* those of the one event being dispatched.
C3_NoOverlap ==
    /\ ~InDispatch => tasks = << >>
    /\ pc = "while" => \A i \in 1..Len(last_tasks) : TaskDone(last_tasks[i])
    /\ InDispatch =>
          /\ last_dispatched # None
          /\ LET ts == TasksOf(events[Val(last_dispatched) + 1].controller_scenes)
             IN /\ Len(tasks) = Len(ts)
                /\ \A i \in 1..Len(ts) : /\ tasks[i].base_url = ts[i].base_url
                                         /\ tasks[i].scene = ts[i].scene

\* the dispatch of the four-endpoint event has returned after cancelling two units
\* at the deadline, and no unit is left running
C3_Witness ==
    /\ WaitedReturn
    /\ Len(last_tasks) = 4
    /\ Cardinality({ i \in LastUnits : last_tasks[i].st = "cancelled" }) = 2
    /\ tasks = << >>

\* the unit's endpoint sent no response at all and the unit did not end by itself
\* with a result other than the timeout of its request
NeverResponded(t) == t.answers = 0 /\ t.result \in { "none", "timed_out" }

\* C4 (as claimed): when an event resolves to 4 endpoints, 3 respond successfully
\* and 1 never responds, _dispatch_event reports 3 successes and 1 timed-out unit
\* and returns no later than the shared deadline after it was invoked.
C4_FanReport ==
    ( /\ WaitedReturn
      /\ report.attempted = 4
      /\ Cardinality({ i \in LastUnits : ApplyResult(last_tasks[i]) }) = 3
      /\ Cardinality({ i \in LastUnits : NeverResponded(last_tasks[i]) }) = 1 )
    => /\ report.success_count = 3
       /\ report.timeout_count = 1
       /\ report.total_time <= WaitDeadline

\* C5: _dispatch_event always terminates: a call that asyncio.wait was reached in
\* returns when all units are done or at the deadline, whichever is first, and
\* every call returns whatever the endpoints do.
C5_DispatchTerminates ==
    /\ [](WaitedReturn =>
            /\ report.total_time <= WaitDeadline
            /\ report.timeout_count > 0 => report.total_time = WaitDeadline)
    /\ (InDispatch ~> pc = "while")

\* a dispatch with an endpoint that never responded has returned at the deadline
C5_Witness ==
    /\ WaitedReturn
    /\ report.total_time = WaitDeadline
    /\ { i \in LastUnits : last_tasks[i].st = "cancelled" /\ last_tasks[i].answers = 0 } # {}
    /\ current_event_index = 1

\* the number of events with time_s <= t
NumUpTo(t) == Cardinality({ i \in Indices : TimeOf(i) <= t })

\* a tick whose reading is smaller than last_time
BackwardTick ==
    /\ pc = "loop"
    /\ last_time # None
    /\ current_time' # None
    /\ Val(current_time') < Val(last_time)

\* C6: a tick whose reading is smaller than last_time sets the cursor to the
\* number of events with time_s <= the reading and dispatches no event.
C6_BackwardSeek ==
    [][ BackwardTick =>
          /\ current_event_index' = NumUpTo(Val(current_time'))
          /\ last_time' = current_time'
          /\ pc' = "loop"
          /\ tick_log' = << >>
          /\ dispatched' = dispatched
          /\ tasks' = tasks ]_vars

\* the timeline [t=0, t=2] after the readings 0, 1, 3 and then 1: the cursor is 1,
\* both events have been dispatched once, none because of the seek
C6_Witness ==
    /\ pc = "loop"
    /\ Len(events) = 2 /\ TimeOf(0) = 0 /\ TimeOf(1) = 2
    /\ last_time = Some(1)
    /\ current_event_index = 1
    /\ dispatched = { 0, 1 }
    /\ redo = { 1 }
    /\ again = {}

\* C7: after a backward jump, once the clock has advanced again to a reading t,
\* every event the jump passed over that had been dispatched before it and has
\* time_s <= t has been dispatched a second time.
C7_Redispatch ==
    pc = "loop" /\ ~in_song_select => \A i \in redo : TimeOf(i) > Val(last_time)

\* the timeline [t=0, t=2] after the readings 3, 1 and 3 again: the event t=2 has
\* been dispatched a second time
C7_Witness ==
    /\ pc = "loop"
    /\ Len(events) = 2 /\ TimeOf(0) = 0 /\ TimeOf(1) = 2
    /\ last_time = Some(3)
    /\ again = { 1 }
    /\ redo = {}

\* C8: each dispatched event is the one at the cursor; between two dispatches with
\* no backward jump in between the index grows by one and time_s does not
\* decrease, so events of equal time_s are dispatched in timeline order.
C8_InOrder ==
    [][ DispatchStep =>
          /\ tick_log'[Len(tick_log')] = current_event_index
          /\ last_dispatched # None =>
                /\ current_event_index = Val(last_dispatched) + 1
                /\ TimeOf(current_event_index) >= TimeOf(Val(last_dispatched)) ]_vars

\* two events of equal time_s dispatched in one tick, in timeline order
C8_Witness ==
    /\ TickDone
    /\ Len(events) = 2 /\ TimeOf(0) = TimeOf(1)
    /\ tick_log = << 0, 1 >>

\* the number of units _dispatch_event creates for an event: one for each
\* endpoint of each of its scenes
ExpectedUnits(ev) ==
    Cardinality({ jk \in (1..Len(ev.controller_scenes)) \X (1..Cardinality(Endpoints)) :
                    jk[2] <= Len(ControllersGet(ev.controller_scenes[jk[1]].controller_id)) })

\* apply_scene of the unit began: it ended with a result or sent a request
Issued(t) == t.result # "none" \/ t.gets + t.posts >= 1

\* C9: whatever the outcome of a unit, _dispatch_event returns normally to the
\* while loop, which goes on with the next event; all units of the event were
\* issued; and the next due event is dispatched.
C9_NothingHalts ==
    /\ [][ InDispatch =>
             \/ pc' \in { "wait", "cancel", "cleanup" } /\ UNCHANGED current_event_index
             \/ pc' = "while" /\ current_event_index' = current_event_index + 1 ]_vars
    /\ [](WaitedReturn =>
             /\ Len(last_tasks) = ExpectedUnits(events[current_event_index])
             /\ \A i \in 1..Len(last_tasks) : Issued(last_tasks[i]))
    /\ \A n \in 0..(MaxEvents - 1) :
          (pc = "while" /\ Due /\ current_event_index = n) ~> (n \in Range(tick_log))

\* a unit of the first event raised and its sibling was cancelled at the
\* deadline; the call has returned and the while loop is at the second event,
\* which is due
C9_Witness ==
    /\ WaitedReturn
    /\ current_event_index = 1
    /\ Due
    /\ tick_log = << 0 >>
    /\ { i \in LastUnits : last_tasks[i].result = "raised" } # {}
    /\ { i \in LastUnits : last_tasks[i].st = "cancelled" /\ last_tasks[i].posts = 1 } # {}

\* C10: when _dispatch_event returns the cursor advances by exactly one, whatever
\* became of the units, and an event already dispatched is dispatched again only
\* after a backward jump passed over it.
C10_NoRetry ==
    [][ /\ ReturnStep => current_event_index' = current_event_index + 1
        /\ DispatchStep =>
              (current_event_index \in dispatched => current_event_index \in redo)
      ]_vars

\* a dispatch whose only unit timed out has returned and the cursor has moved on
C10_Witness ==
    /\ pc = "while"
    /\ current_event_index = 1
    /\ report.attempted = 1 /\ report.timeout_count = 1
    /\ \A i \in 1..Len(last_tasks) : last_tasks[i].st = "cancelled"
    /\ dispatched = { 0 }

\* a call of _dispatch_event has just returned to the while loop: the event it
\* dispatched is the one before the cursor
JustReturned == pc = "while" /\ tick_log # << >>

\* C11 (as claimed): a scene whose controller id is not a key of the registry, or
\* maps to an empty list, creates no unit and is counted nowhere, and the units of
\* the other scenes of the event are created all the same: the call makes one
\* unit for each endpoint of each scene whose id is registered, and counts those.
C11_AbsentIdSkipped ==
    JustReturned =>
        /\ \A i \in LastUnits : ControllersGet(last_tasks[i].controller_id) # << >>
        /\ Len(last_tasks) = ExpectedUnits(events[current_event_index])
        /\ report.logged =>
              report.success_count + report.timeout_count = Len(last_tasks)

\* the directive variants apply_scene knows: preset by number, preset by name, state
Variants == { "preset", "preset_name", "state" }

\* C12: in dry-run mode apply_scene sends no request (no GET of the catalog, no
\* POST), creates no session and returns True for every directive variant, so a
\* dispatch whose units all carry such a directive reports every unit succeeded.
C12_DryRun ==
    dry_run =>
        /\ \A e \in Endpoints : ~session[e]
        /\ \A i \in 1..Len(tasks) :
              /\ tasks[i].gets = 0 /\ tasks[i].posts = 0
              /\ tasks[i].st \notin { "get", "post" }
              /\ tasks[i].scene \in Variants => tasks[i].result \in { "none", "ok" }
        /\ WaitedReturn =>
              /\ \A i \in LastUnits :
                    /\ last_tasks[i].gets = 0 /\ last_tasks[i].posts = 0
                    /\ last_tasks[i].scene \in Variants => ApplyResult(last_tasks[i])
              /\ (\A i \in LastUnits : last_tasks[i].scene \in Variants) =>
                    /\ report.success_count = report.attempted
                    /\ report.timeout_count = 0

\* a dry run of the event with four endpoints and all three variants has returned
C12_Witness ==
    /\ dry_run
    /\ WaitedReturn
    /\ Len(last_tasks) = 4
    /\ { last_tasks[i].scene : i \in LastUnits } = Variants
    /\ report.success_count = 4

\* the states of the scheduler, read from the flags of the player: the song menu
\* is up; the controls are up and the show has not ended; the controls are up
\* and show FINISHED
SelectingShow == in_song_select

Playing == ~in_song_select /\ ~song_finished

Finished == ~in_song_select /\ song_finished

\* C13 (as claimed): every call of _dispatch_event is made in Playing, never in
\* SelectingShow or Finished, on a tick whose clock reading is not None.
C13_OnlyPlayingDispatches ==
    [][ DispatchStep => Playing /\ current_time # None ]_vars

\* C14: when a chosen show takes the scheduler from SelectingShow to Playing the
\* cursor is 0 and last_time is None, whatever they were, and the first tick of
\* the show dispatches its events with time_s <= the first reading, from index 0.
C14_ShowStartsFresh ==
    /\ [][ SelectingShow /\ Playing' =>
             /\ current_event_index' = 0
             /\ last_time' = None
             /\ dispatched' = {} ]_vars
    /\ [](TickDone /\ Playing /\ last_time = None =>
             /\ Len(tick_log) = NumUpTo(Val(current_time))
             /\ \A k \in 1..Len(tick_log) : tick_log[k] = k - 1)

\* a show has just been chosen after a show that had dispatched its second event
\* (only that event has a scene for the endpoint a1)
C14_Witness ==
    /\ pc = "loop"
    /\ Playing
    /\ start_time
    /\ session["a1"]
    /\ events # << >>
    /\ current_event_index = 0
    /\ last_time = None
    /\ dispatched = {}

\* a step at which the end-of-song event of the running show is handled
EndSignal == start_time /\ ~start_time' /\ ~song_finished /\ song_finished'

\* C15 (as claimed): the end-of-playback signal takes the scheduler from Playing
\* to Finished, where it stays until an acknowledgement (there is no step to
\* SelectingShow at the signal itself), and Finished never leads to Playing
\* directly.
C15_EndThenAcknowledge ==
    [][ /\ Playing /\ EndSignal => Finished'
        /\ Finished => ~Playing' ]_vars

\* a live call of apply_scene with a recall by name has returned
ByNameReturned ==
    /\ returned # None
    /\ Val(call).fn = "apply_scene"
    /\ ~Val(call).dry_run
    /\ "preset" \notin DOMAIN Val(call).scene
    /\ "preset_name" \in DOMAIN Val(call).scene

\* the positions of the writes among the requests of the call that returned
Writes ==
    { k \in 1..Len(Val(returned).requests) :
          Val(returned).requests[k].method = "POST" }

\* the positions of the catalog entries that carry exactly the requested name
Matching ==
    { k \in 1..Len(Val(call).device.catalog) :
          Val(call).device.catalog[k].n = Val(call).scene.preset_name }

\* C16: a recall by name first reads the catalog (GET /presets); it issues a
\* write only if an entry has exactly the requested name, at most one, and that
\* write is the JSON object with ps = the id of the first matching entry and
\* on = true; with no matching entry it returns failure and writes nothing.
\* A catalog with the one entry "3" named "Foo" and the name "Foo" give the
\* write { ps: 3, on: true }.
C16_RecallByName ==
    ByNameReturned =>
        LET reqs == Val(returned).requests
            dev == Val(call).device
            first == CHOOSE k \in Matching : \A j \in Matching : k <= j
        IN /\ reqs # << >>
           /\ reqs[1] = GetPresets
           /\ Cardinality(Writes) <= 1
           /\ \A k \in Writes :
                 /\ k = 2
                 /\ dev.get = "ok"
                 /\ Matching # {}
                 /\ reqs[k].path = "/json"
                 /\ DOMAIN reqs[k].body = { "ps", "on" }
                 /\ reqs[k].body.on = TRUE
                 /\ \/ /\ dev.catalog[first].pid = "3"
                       /\ reqs[k].body.ps = 3
                    \/ /\ dev.catalog[first].pid = "7"
                       /\ reqs[k].body.ps = 7
           /\ dev.get = "ok" /\ Matching = {} =>
                 /\ Val(returned).result = "False"
                 /\ Writes = {}
           /\ /\ dev.get = "ok"
              /\ Len(dev.catalog) = 1
              /\ dev.catalog[1].pid = "3"
              /\ Matching = {1}
              => reqs = << GetPresets, PostJson([ ps |-> 3, on |-> TRUE ]) >>

\* the name "Foo" is carried by the entries "7" and then "3": the catalog was
\* read and the one write recalls 7
C16_Witness ==
    /\ ByNameReturned
    /\ Matching = {1, 2}
    /\ Val(call).device.catalog[1].pid = "7"
    /\ Val(returned).requests =
           << GetPresets, PostJson([ ps |-> 7, on |-> TRUE ]) >>

\* a live call of apply_scene has returned
LiveReturned ==
    /\ returned # None
    /\ Val(call).fn = "apply_scene"
    /\ ~Val(call).dry_run

\* C17: a live apply returns true exactly when its write received a response
\* with a status in [200, 300); a write answered with another status, or ended
\* by a connection error or a timeout, makes it return false, and so does a
\* catalog read that failed; the call never ends by raising.
C17_TrueExactlyOn2xx ==
    LiveReturned =>
        LET po == Val(call).device.post
            answered == Writes # {} /\ "status" \in DOMAIN po
        IN /\ Val(returned).result \in { "True", "False" }
           /\ Val(returned).result = "True" <=>
                 /\ answered
                 /\ 200 <= po.status
                 /\ po.status < 300
           /\ Writes # {} /\ "exc" \in DOMAIN po => Val(returned).result = "False"
           /\ answered /\ po.status \in { 199, 300, 404, 500 } =>
                 Val(returned).result = "False"

\* a state dictionary was written, the device answered 299, and the call
\* returned true
C17_Witness ==
    /\ LiveReturned
    /\ Val(call).scene = [ on |-> TRUE ]
    /\ Val(call).device.post = [ status |-> 299 ]
    /\ Val(returned) = Left("True", << PostJson([ on |-> TRUE ]) >>, TRUE)

\* load_timings_from_yaml has returned the timeline of a show
Loaded ==
    /\ returned # None
    /\ Val(call).fn = "load_timings_from_yaml"
    /\ Val(returned).result = "returned"

\* the events of the show as declared, and the timeline returned for it
Declared == Val(call).data.songs

TimelineReturned == Val(returned).timeline

\* the ways to place n declared events in a timeline of n events
Placements(n) ==
    { p \in [1..n -> 1..n] : \A j, k \in 1..n : j # k => p[j] # p[k] }

\* C18: the timeline load_timings_from_yaml returns has non-decreasing time_s,
\* and it is the declared events rearranged so that events with equal time_s
\* stand in the order in which they were declared.
C18_SortedStable ==
    Loaded =>
        /\ Len(TimelineReturned) = Len(Declared)
        /\ \A k \in 1..(Len(TimelineReturned) - 1) :
              TimelineReturned[k].time_s <= TimelineReturned[k + 1].time_s
        /\ \E p \in Placements(Len(Declared)) :
              /\ \A k \in 1..Len(Declared) :
                    TimelineReturned[k] = Parsed(Declared[p[k]])
              /\ \A j, k \in 1..Len(Declared) :
                    /\ j < k
                    /\ TimelineReturned[j].time_s = TimelineReturned[k].time_s
                    => p[j] < p[k]

\* two events with different scenes were declared for time 1: the timeline has
\* them in the order of their declaration
C18_Witness ==
    /\ Loaded
    /\ Len(Declared) = 2
    /\ TimeGet(Declared[1]) = 1
    /\ TimeGet(Declared[2]) = 1
    /\ Parsed(Declared[1]) # Parsed(Declared[2])
    /\ TimelineReturned = << Parsed(Declared[1]), Parsed(Declared[2]) >>

\* the positions of the "group" entries in the controllers mapping of an event
GroupAt(ev) == { g \in 1..Len(ev.controllers) : ev.controllers[g][1] = "group" }

\* a group definition with a list under its controllers key
NamesList(scene_def) ==
    /\ "controllers" \in DOMAIN scene_def
    /\ "list" \in DOMAIN scene_def.controllers

\* C19: a group directive whose controllers list names K ids puts exactly K
\* ControllerScenes into its event, at the place of the group entry: the n-th
\* has the n-th listed id and the fields of the group without the controllers
\* key, with the values of the group; when the listed ids differ from one
\* another the K scenes have K different controller ids.
C19_GroupExpansion ==
    Loaded =>
        \A i \in 1..Len(Declared) : \A g \in GroupAt(Declared[i]) :
            LET ctrl_map == Declared[i].controllers
                scene_def == ctrl_map[g][2]
            IN NamesList(scene_def) =>
                 LET ids == scene_def.controllers.list
                     K == Len(ids)
                     before == ControllerScenes(SubSeq(ctrl_map, 1, g - 1))
                     after == ControllerScenes(SubSeq(ctrl_map, g + 1, Len(ctrl_map)))
                 IN \E j \in 1..Len(TimelineReturned) :
                       LET cs == TimelineReturned[j].controller_scenes
                           ex == SubSeq(cs, Len(before) + 1, Len(before) + K)
                       IN /\ TimelineReturned[j].time_s = TimeGet(Declared[i])
                          /\ Len(cs) = Len(before) + K + Len(after)
                          /\ SubSeq(cs, 1, Len(before)) = before
                          /\ SubSeq(cs, Len(before) + K + 1, Len(cs)) = after
                          /\ \A n \in 1..K :
                                /\ ex[n].controller_id = ids[n]
                                /\ DOMAIN ex[n].scene = DOMAIN scene_def \ { "controllers" }
                                /\ \A f \in DOMAIN ex[n].scene :
                                      ex[n].scene[f] = scene_def[f]
                          /\ (\A m, n \in 1..K : m # n => ids[m] # ids[n])
                             => Cardinality({ ex[n].controller_id : n \in 1..K }) = K

\* the show of the test fixture: one event at time 0 whose group names sword1
\* and sword2 with preset 1 has been loaded as two scenes with preset 1
C19_Witness ==
    /\ Loaded
    /\ Declared = << [ time |-> 0,
                       controllers |-> << Group(<< "sword1", "sword2" >>) >> ] >>
    /\ TimelineReturned =
           << TimedEvent(0, << CScene("sword1", [ preset |-> 1 ]),
                               CScene("sword2", [ preset |-> 1 ]) >>) >>

\* a group entry that is malformed: no controllers key, or a value that is not
\* a list
Malformed(entry) == entry[1] = "group" /\ ~NamesList(entry[2])

\* the entries of a controllers mapping that are not malformed group entries
RECURSIVE WellFormedOf(_)
WellFormedOf(ctrl_map) ==
    IF ctrl_map = << >> THEN << >>
    ELSE IF Malformed(Head(ctrl_map)) THEN WellFormedOf(Tail(ctrl_map))
    ELSE << Head(ctrl_map) >> \o WellFormedOf(Tail(ctrl_map))

\* C20: a group entry with no controllers key, or with one that is not a list,
\* adds no scene to its event and does not end the load: the call returns, the
\* timeline has every declared event, and each event has the scenes of its
\* other entries.
C20_MalformedGroup ==
    /\ returned # None
    /\ Val(call).fn = "load_timings_from_yaml"
    /\ "songs" \in DOMAIN Val(call).data
    => /\ Val(returned).result = "returned"
       /\ Len(TimelineReturned) = Len(Declared)
       /\ \E p \in Placements(Len(Declared)) :
             \A k \in 1..Len(Declared) :
                 /\ TimelineReturned[k].time_s = TimeGet(Declared[p[k]])
                 /\ TimelineReturned[k].controller_scenes =
                        ControllerScenes(WellFormedOf(Declared[p[k]].controllers))

\* an event whose group has a string for its controllers was declared before an
\* event whose group has no controllers key: both are in the timeline, the first
\* with the scene of its other entry only and the second with that of its own
C20_Witness ==
    /\ Loaded
    /\ Declared = << [ time |-> 1, controllers |-> << Regular2, GroupString >> ],
                     [ time |-> 2, controllers |-> << GroupMissing, Regular1 >> ] >>
    /\ TimelineReturned =
           << TimedEvent(1, << CScene("trunk", [ on |-> TRUE ]) >>),
              TimedEvent(2, << CScene("sword1", [ preset |-> 1 ]) >>) >>

\* load_timings_from_yaml has ended, by returning or by raising
LoadEnded == returned # None /\ Val(call).fn = "load_timings_from_yaml"

\* the declared items of the show that are well formed, in declaration order
RECURSIVE WellFormedItems(_)
WellFormedItems(evs) ==
    IF evs = << >> THEN << >>
    ELSE IF IsMapping(Head(evs)) THEN << Head(evs) >> \o WellFormedItems(Tail(evs))
    ELSE WellFormedItems(Tail(evs))

\* C21: the load ends by raising only for a document without its "songs"
\* collection; with the collection present it returns, and the timeline has one
\* event for each well-formed item of the show, a malformed item dropped.
C21_OnlyMissingSongsFatal ==
    LoadEnded =>
        /\ Val(returned).result = "raised" <=> "songs" \notin DOMAIN Val(call).data
        /\ "songs" \in DOMAIN Val(call).data =>
              /\ Len(TimelineReturned) = Len(WellFormedItems(Declared))
              /\ \A i \in 1..Len(Declared) :
                    IsMapping(Declared[i]) =>
                        \E j \in 1..Len(TimelineReturned) :
                            TimelineReturned[j] = Parsed(Declared[i])

\* the units that have a request under way on the endpoint e
InFlight(e) ==
    { i \in 1..Len(tasks) : tasks[i].base_url = e /\ tasks[i].st \in { "get", "post" } }

\* a step in which a unit on the endpoint e makes its first live call
FirstCall(e) ==
    \E i \in 1..Len(tasks) :
        /\ tasks[i].base_url = e
        /\ tasks[i].st = "created"
        /\ Len(tasks') = Len(tasks)
        /\ tasks'[i].st \in { "get", "post" }

\* C22: up to the close of shutdown an endpoint has at most one session made for
\* it; it is made in the step of a live apply call on the endpoint, when the
\* endpoint has none, never in a dry run; every live call leaves the endpoint
\* with a session, and every request under way belongs to an endpoint whose one
\* session exists, also for units of one event on the same endpoint and for
\* later events and shows.
C22_OneSessionPerEndpoint ==
    /\ [](\A e \in Endpoints :
             /\ sessions_created[e] <= 1
             /\ session[e] => sessions_created[e] = 1
             /\ InFlight(e) # {} => session[e])
    /\ [][ \A e \in Endpoints :
              /\ sessions_created'[e] # sessions_created[e] =>
                    /\ ~dry_run
                    /\ ~session[e]
                    /\ sessions_created[e] = 0
                    /\ FirstCall(e)
              /\ FirstCall(e) => session'[e] ]_vars

\* two units of one event have a request under way on the endpoint b1, which
\* has had one session made
C22_Witness ==
    /\ Cardinality(InFlight("b1")) = 2
    /\ session["b1"]
    /\ sessions_created["b1"] = 1

\* C23: close() of an endpoint without a session changes nothing and does not
\* raise; close() leaves the endpoint without a session, and a second close()
\* after it does not raise and leaves the same state as the first.
C23_CloseIdempotent ==
    \A e \in Endpoints :
        LET once == ControllerClose(session[e])
            twice == ControllerClose(once.session)
        IN /\ ~once.raised
           /\ ~once.session
           /\ ~session[e] => once.session = session[e]
           /\ ~twice.raised
           /\ twice.session = once.session

\* the program has exited: b1, which had a session, has been closed and a1,
\* which never had one, is as it was
C23_Witness ==
    /\ pc = "exited"
    /\ sessions_created["b1"] = 1
    /\ sessions_created["a1"] = 0
    /\ \A e \in Endpoints : ~session[e]

\* an endpoint loses its session in this step
SessionClosed == \E e \in Endpoints : session[e] /\ ~session'[e]

\* C24: a session is closed only by the step that leaves the main loop, so never
\* while the loop is selecting a show or playing; after that step, whatever the
\* mode in which quit was requested, no endpoint has a session, and none gets one
\* again.
C24_ClosedOnlyAtShutdown ==
    /\ [][ SessionClosed => pc # "exited" /\ pc' = "exited" ]_vars
    /\ [](pc = "exited" => \A e \in Endpoints : ~session[e])
    /\ [][ pc = "exited" => session' = session ]_vars

\* quit was requested while a show was playing: the sessions that had been made
\* for b1 and c1 are released
C24_Witness ==
    /\ pc = "exited"
    /\ Playing
    /\ sessions_created["b1"] = 1
    /\ sessions_created["c1"] = 1
    /\ \A e \in Endpoints : ~session[e]

\* C25: while _dispatch_event waits for its units, each of the three limits of
\* an endpoint's session (total, connect, read) is strictly smaller than the
\* deadline of the wait.
C25_LimitsBelowDeadline ==
    pc = "wait" =>
        /\ WLED_HTTP_TIMEOUT < WaitDeadline
        /\ WLED_CONNECT_TIMEOUT < WaitDeadline
        /\ WLED_READ_TIMEOUT < WaitDeadline

\* C26: in every reachable state at most one apply operation has a request
\* under way on any endpoint, also for events that name a controller id in more
\* than one scene.
C26_SerialPerEndpoint ==
    \A e \in Endpoints : Cardinality(InFlight(e)) <= 1

\* the units of the last dispatch made for scene number j of its event on the
\* endpoint url
UnitsOf(j, url) ==
    LET cs == events[current_event_index].controller_scenes[j]
    IN { i \in LastUnits : /\ last_tasks[i].controller_id = cs.controller_id
                           /\ last_tasks[i].scene = cs.scene
                           /\ last_tasks[i].base_url = url }

\* C27: nothing is retried. A unit sends at most one write, and at most one
\* catalog read, which only a recall by name sends; while a dispatch is under way
\* no unit is added and a unit that has ended stays as it ended; and a dispatch
\* that reached its wait has invoked apply exactly once for each scene of the
\* event on each endpoint of the scene's controller.
C27_NothingRetried ==
    /\ [](\A i \in 1..Len(tasks) :
             /\ tasks[i].posts <= 1
             /\ tasks[i].gets <= 1
             /\ tasks[i].gets = 1 => tasks[i].scene = "preset_name")
    /\ [][ InDispatch /\ pc' \in { "wait", "cancel", "cleanup" } =>
              /\ Len(tasks') = Len(tasks)
              /\ \A i \in 1..Len(tasks) :
                    /\ TaskDone(tasks[i]) => tasks'[i] = tasks[i]
                    /\ tasks'[i].posts >= tasks[i].posts
                    /\ tasks'[i].gets >= tasks[i].gets ]_vars
    /\ [](WaitedReturn =>
             LET ev == events[current_event_index]
             IN /\ Len(last_tasks) = ExpectedUnits(ev)
                /\ \A i \in LastUnits : last_tasks[i].posts <= 1
                /\ \A j \in 1..Len(ev.controller_scenes) :
                      \A k \in 1..Len(ControllersGet(ev.controller_scenes[j].controller_id)) :
                          Cardinality(UnitsOf(j,
                              ControllersGet(ev.controller_scenes[j].controller_id)[k])) = 1)

\* the dispatch of the event with two scenes for B has returned: one unit got a
\* non-2xx answer to its one write, the other found no preset of the name and
\* wrote nothing, and neither was issued again
C27_Witness ==
    /\ WaitedReturn
    /\ Len(last_tasks) = 2
    /\ last_tasks[1].result = "http_error" /\ last_tasks[1].posts = 1
    /\ last_tasks[2].result = "not_found" /\ last_tasks[2].posts = 0
    /\ last_tasks[2].gets = 1
    /\ tasks = << >>

\* C28: the succeeded count of a dispatch is the number of its units whose apply
\* returned True before the wait ended; a unit whose apply returned False is not
\* counted.
C28_SuccessCount ==
    WaitedReturn =>
        report.success_count =
            Cardinality({ i \in LastUnits : /\ last_tasks[i].st = "done"
                                            /\ ApplyResult(last_tasks[i]) })

\* C29: the body of the write is a function of the directive alone. A live
\* apply of a directive with preset n sends one write whose body is exactly
\* { ps: n, on: true }; a live apply of a state sends one write whose body is the
\* state as given, field for field; and the requests are the same whatever the
\* device holds or answers.
C29_WireBody ==
    /\ LiveReturned
    /\ "preset" \in DOMAIN Val(call).scene \/ "preset_name" \notin DOMAIN Val(call).scene
    =>
        LET scene == Val(call).scene
            reqs == Val(returned).requests
        IN /\ Len(reqs) = 1
           /\ reqs[1].method = "POST"
           /\ reqs[1].path = "/json"
           /\ "preset" \in DOMAIN scene =>
                 /\ DOMAIN reqs[1].body = { "ps", "on" }
                 /\ reqs[1].body.ps = scene.preset
                 /\ reqs[1].body.on = TRUE
           /\ "preset" \notin DOMAIN scene =>
                 /\ DOMAIN reqs[1].body = DOMAIN scene
                 /\ \A k \in DOMAIN scene : reqs[1].body[k] = scene[k]
           /\ scene = [ preset |-> 5 ] =>
                 reqs = << PostJson([ ps |-> 5, on |-> TRUE ]) >>
           /\ \A dev \in Devices : ApplyScene(scene, FALSE, dev).requests = reqs

\* the directive preset 5 was applied live to a device whose catalog has an
\* entry and which answered 404: the one write has the body { ps: 5, on: true }
C29_Witness ==
    /\ LiveReturned
    /\ Val(call).scene = [ preset |-> 5 ]
    /\ Val(call).device.catalog # << >>
    /\ Val(call).device.post = [ status |-> 404 ]
    /\ Val(returned) = Left("False", << PostJson([ ps |-> 5, on |-> TRUE ]) >>, TRUE)

\* a step of the playback branch of the main loop that reads the clock: the
\* reading is current_time'
ClockTick ==
    /\ pc = "loop"
    /\ ~in_song_select
    /\ pc' # "exited"
    /\ UNCHANGED << in_song_select, song_finished, start_time, tasks >>

\* C30: a tick whose reading is None, or equal to last_time, dispatches no event
\* and leaves the cursor where it was; main_async stays at the top of its loop;
\* last_time is as before (on a None reading it is not assigned at all).
C30_IdleTick ==
    [][ ClockTick /\ (current_time' = None \/ current_time' = last_time) =>
          /\ pc' = "loop"
          /\ tick_log' = << >>
          /\ dispatched' = dispatched
          /\ current_event_index' = current_event_index
          /\ last_time' = last_time
          /\ tasks' = tasks
          /\ session' = session ]_vars

\* both events of the show were dispatched by the reading 1 and the next
\* reading was 1 again: nothing was dispatched and the cursor is still 2
C30_Witness ==
    /\ pc = "loop"
    /\ Len(events) = 2
    /\ last_time = Some(1)
    /\ current_time = Some(1)
    /\ tick_log = << >>
    /\ last_dispatched = Some(1)
    /\ current_event_index = 2

\* the event whose dispatch has just returned
EventReturned == events[current_event_index]

\* C31: when a dispatch returns, the units it attempted are as many as the
\* endpoints registered for the controller ids of the event's scenes, summed
\* over the scenes whose id resolves, a scene counted each time it names the id;
\* and every attempted unit is classified once: responded plus timed-out is the
\* number attempted.
C31_UnitsAttempted ==
    JustReturned =>
        /\ Len(last_tasks) = ExpectedUnits(EventReturned)
        /\ Len(last_tasks) > 0 =>
              /\ report.attempted = Len(last_tasks)
              /\ report.success_count + report.timeout_count = report.attempted

\* C32: in Playing, whenever a tick that read the clock is complete, the cursor
\* is between 0 and the length of the timeline and is the number of events with
\* time_s <= last_time, after any forward progress, pause and seek.
C32_CursorInvariant ==
    pc = "loop" /\ Playing /\ last_time # None =>
        /\ 0 <= current_event_index
        /\ current_event_index <= Len(events)
        /\ current_event_index = NumUpTo(Val(last_time))

\* the timeline [t=1, t=2] after both events were dispatched and the clock was
\* taken back to 0: the cursor is 0 again
C32_Witness ==
    /\ pc = "loop"
    /\ Playing
    /\ Len(events) = 2 /\ TimeOf(0) = 1 /\ TimeOf(1) = 2
    /\ last_time = Some(0)
    /\ current_event_index = 0
    /\ redo = { 0, 1 }

\* C33: when the end of the music is signalled in Playing, every event whose
\* time_s is at most the playback position of that moment has been dispatched in
\* this playback.
C33_NoDueEventDropped ==
    [][ /\ Playing
        /\ EndSignal
        /\ last_time # None
        => \A i \in Indices : TimeOf(i) <= Val(end_position') => i \in dispatched
      ]_vars

\* C34: a show chosen while the clock is stopped whose media file does not exist
\* (the choice does not start the clock) leaves the scheduler in SelectingShow.
C34_MissingFileStaysInSelect ==
    [][ /\ SelectingShow
        /\ ~start_time
        /\ ~start_time'
        => in_song_select'
      ]_vars

\* C35: after a backward jump to the reading t, and until the next backward jump
\* or the end of the playback, no event with time_s <= t is dispatched; a restart
\* that reads 0 does not dispatch the events at time_s = 0 again.
C35_NoDispatchAtOrBeforeJump ==
    [][ DispatchStep /\ jumped_to # None
        => TimeOf(current_event_index) > Val(jumped_to) ]_vars

\* the timeline [t=0, t=1] after the readings 1, 0 (a restart) and 1 again: the
\* event t=1 has been dispatched a second time, the event t=0 has not
C35_Witness ==
    /\ TickDone
    /\ Len(events) = 2 /\ TimeOf(0) = 0 /\ TimeOf(1) = 1
    /\ jumped_to = Some(0)
    /\ last_time = Some(0) /\ current_time = Some(1)
    /\ tick_log = << 1 >>
    /\ again = { 1 }

\* the indices a tick dispatches, in order, as a function of the timeline, the
\* previous reading t0 (None at the first tick of a show) and the reading t1
DispatchesOf(t0, t1) ==
    LET first == IF t0 = None THEN 0 ELSE NumUpTo(Val(t0))
    IN  [ k \in 1..(NumUpTo(t1) - first) |-> first + k - 1 ]

\* C36: which events a tick dispatches, and in what order, is a function of the
\* timeline and of the readings sampled so far (the previous one and this one),
\* and so is the cursor it leaves; the responses, failures and timeouts of the
\* endpoints do not enter.  Two runs with the same timeline and readings thus
\* dispatch the same sequence of events.
C36_DispatchDependsOnReadingsOnly ==
    /\ TickDone =>
          /\ tick_log = DispatchesOf(last_time, Val(current_time))
          /\ current_event_index = NumUpTo(Val(current_time))
    /\ pc = "loop" /\ ~in_song_select /\ last_time # None =>
          current_event_index = NumUpTo(Val(last_time))

\* the timeline [t=0, t=1] after the readings 0 and 1: the second tick has
\* dispatched the event t=1 and only that one, in a dispatch whose units did not
\* all succeed and one of which was cancelled at the deadline
C36_Witness ==
    /\ TickDone
    /\ Len(events) = 2 /\ TimeOf(0) = 0 /\ TimeOf(1) = 1
    /\ last_time = Some(0) /\ current_time = Some(1)
    /\ tick_log = << 1 >>
    /\ report.timeout_count > 0
    /\ report.success_count < report.attempted

\* run_schedule has returned or raised
ScheduleEnded == returned # None /\ Val(returned).pc = "done"

\* the events of the list given to run_schedule
Given == 1..Len(Val(call).events)

\* the places of the event with this id in the log of dispatches
LogPlaces(id) ==
    { k \in 1..Len(Val(returned).log) : Val(returned).log[k].id = id }

\* C37 (as claimed): when run_schedule ends, every event of the list given has
\* been dispatched exactly once, in non-decreasing time_s order, none before
\* reference + time_s; from an empty list nothing was dispatched.
C37_RunSchedule ==
    ScheduleEnded =>
        LET r == Val(returned)
            given == Val(call).events
        IN  /\ \A i \in Given : Cardinality(LogPlaces(i)) = 1
            /\ Len(r.log) = Len(given)
            /\ \A k \in 1..(Len(r.log) - 1) :
                  given[r.log[k].id].time_s <= given[r.log[k + 1].id].time_s
            /\ \A k \in 1..Len(r.log) :
                  r.log[k].at >= r.reference + given[r.log[k].id].time_s

\* C38 (as claimed): over calls of update_timecode with strictly increasing
\* timecodes the callback is invoked at most once for each event, also for an
\* event whose time is one of the timecodes received.
C38_CallbackAtMostOnce ==
    call # None /\ Val(call).fn = "update_timecode" =>
        \A t \in Val(call).events : Val(returned).invoked[t] <= 1

====
